---- MODULE Spec2Model ----
(***************************************************************************)
(* Model of the Slang adapter of edalize (src/src/edalize/slang.py).       *)
(*                                                                         *)
(* Text is modelled with TLA+ strings, manipulated with Len, SubSeq and \o *)
(* so that formatting, joining and splitting are computed character by     *)
(* character as Python computes them.  A Python list of strings is a       *)
(* sequence of strings.  A Python dict is the sequence of its entries in   *)
(* insertion order.                                                        *)
(***************************************************************************)
EXTENDS Integers, Sequences, FiniteSets, TLC

(***************************************************************************)
(* Bounds.                                                                 *)
(***************************************************************************)
\* Total number of configure_main / build_main calls in one behaviour.
MaxOps == 3

\* The adapter instances that exist in the process.
Instances == {"A", "B"}

\* Name of the heap cell holding the class attribute Slang.flags.
ClassCell == "Slang"

(***************************************************************************)
(* Python values that appear in the configuration.                         *)
(***************************************************************************)
PyInt(n) == [kind |-> "int", n |-> n, s |-> "", b |-> FALSE, items |-> <<>>]

PyStr(s) == [kind |-> "str", n |-> 0, s |-> s, b |-> FALSE, items |-> <<>>]

PyBool(b) == [kind |-> "bool", n |-> 0, s |-> "", b |-> b, items |-> <<>>]

PyList(xs) == [kind |-> "list", n |-> 0, s |-> "", b |-> FALSE, items |-> xs]

Entry(k, v) == [key |-> k, value |-> v]

\* dict.get(key, default) on a dict given as its sequence of entries.
DictGet(d, key, default) ==
    IF \E i \in 1..Len(d) : d[i].key = key
    THEN d[CHOOSE i \in 1..Len(d) : d[i].key = key].value
    ELSE default

(***************************************************************************)
(* String helpers: str(int), str.join, str.split, re.match.                *)
(***************************************************************************)
Digits == <<"0", "1", "2", "3", "4", "5", "6", "7", "8", "9">>

RECURSIVE NatToStr(_)
NatToStr(n) ==
    IF n < 10 THEN Digits[n + 1]
    ELSE NatToStr(n \div 10) \o Digits[(n % 10) + 1]

\* str(n) for a Python int.
IntToStr(n) == IF n < 0 THEN "-" \o NatToStr(0 - n) ELSE NatToStr(n)

\* The items a Python iteration over the value yields: the characters of a
\* str, the elements of a list.
IterItems(v) ==
    IF v.kind = "str"
    THEN [i \in 1..Len(v.s) |-> SubSeq(v.s, i, i)]
    ELSE v.items

\* sep.join(items)
RECURSIVE Join(_, _)
Join(sep, items) ==
    IF Len(items) = 0 THEN ""
    ELSE IF Len(items) = 1 THEN items[1]
    ELSE items[1] \o sep \o Join(sep, Tail(items))

Whitespace == {" ", "\t", "\n"}

\* str.split() without argument: maximal runs of non-whitespace characters.
RECURSIVE SplitLoop(_, _, _, _)
SplitLoop(s, i, word, out) ==
    IF i > Len(s)
    THEN IF word = "" THEN out ELSE Append(out, word)
    ELSE LET c == SubSeq(s, i, i) IN
         IF c \in Whitespace
         THEN SplitLoop(s, i + 1, "", IF word = "" THEN out ELSE Append(out, word))
         ELSE SplitLoop(s, i + 1, word \o c, out)

Split(s) == SplitLoop(s, 1, "", <<>>)

Range(f) == {f[x] : x \in DOMAIN f}

StartsWith(s, p) == Len(s) >= Len(p) /\ SubSeq(s, 1, Len(p)) = p

\* re.compile(r"(:?systemV|v)erilogSource").match(t): the group is a capture
\* group whose first alternative is an optional ":" followed by "systemV" and
\* whose second alternative is "v"; match() anchors at the start only.
ft_re_match(t) ==
    \E g \in {"systemV", ":systemV", "v"} : StartsWith(t, g \o "erilogSource")

\* re.compile(r"slangWaiver").match(t)
wf_re_match(t) == StartsWith(t, "slangWaiver")

(***************************************************************************)
(* The phases of build_main, each as the list the method leaves in the     *)
(* list object it was given.                                               *)
(***************************************************************************)
\* Edatool._param_value_str(value) with its default arguments, as called at
\* lines 112 and 119: a bool is rendered as str(int(value)), a str as itself,
\* anything else with str().
param_value_str(v) ==
    IF v.kind = "bool" THEN IntToStr(IF v.b THEN 1 ELSE 0)
    ELSE IF v.kind = "str" THEN v.s
    ELSE IntToStr(v.n)

\* Variant: the define loop emits the parameter switch.
RECURSIVE _get_define_flags_G(_, _)
_get_define_flags_G(flags, vlogdefine) ==
    IF vlogdefine = <<>> THEN flags
    ELSE LET e == Head(vlogdefine) IN
         _get_define_flags_G(
             Append(flags, "-G " \o e.key \o "=" \o param_value_str(e.value)),
             Tail(vlogdefine))

\* for key, value in self.vlogdefine.items(): self.flags.append(f"-D ...")
RECURSIVE _get_define_flags(_, _)
_get_define_flags(flags, vlogdefine) ==
    IF vlogdefine = <<>> THEN flags
    ELSE LET e == Head(vlogdefine) IN
         _get_define_flags(
             Append(flags, "-D " \o e.key \o "=" \o param_value_str(e.value)),
             Tail(vlogdefine))

\* for key, value in self.vlogparam.items(): self.flags.append(f"-G ...")
RECURSIVE _get_param_flags(_, _)
_get_param_flags(flags, vlogparam) ==
    IF vlogparam = <<>> THEN flags
    ELSE LET e == Head(vlogparam) IN
         _get_param_flags(
             Append(flags, "-G " \o e.key \o "=" \o param_value_str(e.value)),
             Tail(vlogparam))

\* for dir in self.incdirs: append "-I", then the directory
RECURSIVE IncdirLoop(_, _)
IncdirLoop(flags, incdirs) ==
    IF incdirs = <<>> THEN flags
    ELSE IncdirLoop(Append(Append(flags, "-I"), Head(incdirs)), Tail(incdirs))

\* for file_obj in src_files: two independent ifs on the file type
RECURSIVE SrcFileLoop(_, _)
SrcFileLoop(flags, src_files) ==
    IF src_files = <<>> THEN flags
    ELSE LET file_obj == Head(src_files)
             f1 == IF ft_re_match(file_obj.file_type)
                   THEN Append(flags, file_obj.name)
                   ELSE flags
             f2 == IF wf_re_match(file_obj.file_type)
                   THEN Append(Append(f1, "--waiver-file"), file_obj.name)
                   ELSE f1
         IN SrcFileLoop(f2, Tail(src_files))

_get_file_names(flags, incdirs, src_files) ==
    SrcFileLoop(IncdirLoop(flags, incdirs), src_files)

\* self.flags += " ".join(slang_options).split()
_get_slang_options(flags, tool_options) ==
    LET slang_options == DictGet(tool_options, "slang_options", PyStr(""))
    IN flags \o Split(Join(" ", IterItems(slang_options)))

\* Variant: the mode flags are put in front of the list.
_get_run_mode_flags_front(flags, tool_options) ==
    LET run_mode == DictGet(tool_options, "mode", PyStr(""))
    IN IF run_mode = PyStr("lint")
       THEN <<"--lint-only", "--print-unused-waivers">> \o flags
       ELSE IF run_mode = PyStr("preprocess")
       THEN <<"--preprocess">> \o flags
       ELSE flags

\* Variant: two independent ifs, the second one testing for "not lint".
_get_run_mode_flags_else(flags, tool_options) ==
    LET run_mode == DictGet(tool_options, "mode", PyStr(""))
    IN IF run_mode = PyStr("lint")
       THEN flags \o <<"--lint-only", "--print-unused-waivers">>
       ELSE flags \o <<"--preprocess">>

_get_run_mode_flags(flags, tool_options) ==
    LET run_mode == DictGet(tool_options, "mode", PyStr(""))
    IN IF run_mode = PyStr("lint")
       THEN flags \o <<"--lint-only", "--print-unused-waivers">>
       ELSE IF run_mode = PyStr("preprocess")
       THEN flags \o <<"--preprocess">>
       ELSE flags

\* Variant: no test for the empty top-level name.
_get_top_flags_always(flags, toplevel) ==
    Append(Append(flags, "--top"), toplevel)

_get_top_flags(flags, toplevel) ==
    IF toplevel # ""
    THEN Append(Append(flags, "--top"), toplevel)
    ELSE flags

(***************************************************************************)
(* Configurations: what the framework hands to an instance at construction *)
(* (vlogdefine, vlogparam, the result of _get_fileset_files, tool_options  *)
(* and toplevel).                                                          *)
(***************************************************************************)
File(name, file_type) == [name |-> name, file_type |-> file_type]

BaseConfig ==
    [vlogdefine   |-> << Entry("A", PyInt(1)), Entry("B", PyStr("x")) >>,
     vlogparam    |-> << Entry("W", PyInt(8)) >>,
     incdirs      |-> << "inc" >>,
     src_files    |-> << File("a.sv", "systemVerilogSource"),
                         File("w.waiver", "slangWaiver") >>,
     tool_options |-> << Entry("mode", PyStr("lint")),
                         Entry("slang_options", PyList(<< "--std latest", "-q" >>)) >>,
     toplevel     |-> "top_module"]

EmptyConfig ==
    [vlogdefine   |-> << >>,
     vlogparam    |-> << >>,
     incdirs      |-> << >>,
     src_files    |-> << >>,
     tool_options |-> << >>,
     toplevel     |-> ""]

DefineChoices ==
    { << Entry("DEBUG", PyBool(TRUE)), Entry("N", PyInt(0 - 12)) >>,
      << Entry("B", PyStr("x")), Entry("A", PyInt(1)), Entry("OFF", PyBool(FALSE)) >> }

ParamChoices ==
    { << Entry("DEPTH", PyInt(1024)), Entry("NAME", PyStr("core")) >> }

FileChoices ==
    { << File("b.v", "verilogSource"), File("a.sv", "systemVerilogSource"),
         File("c.vhd", "vhdlSource") >>,
      << File("old.v", "verilogSource-2005"), File("w.waiver", "slangWaiver") >>,
      << File("w.waiver", "slangWaiver"), File("p.sv", ":systemVerilogSource"),
         File("x.tcl", "tclSource") >> }

IncdirChoices == { << >>, << "inc", "rtl/include" >> }

ModeChoices ==
    { << Entry("mode", PyStr("preprocess")) >>,
      << Entry("mode", PyStr("synth")) >>,
      << Entry("mode", PyStr("")) >>,
      << Entry("mode", PyList(<< "lint" >>)) >> }

OptionChoices ==
    { << Entry("slang_options", PyStr("")) >>,
      << Entry("slang_options", PyStr("-q")) >>,
      << Entry("slang_options", PyStr("--std latest")) >>,
      << Entry("slang_options", PyStr(" -Wall\t--top  x ")) >>,
      << Entry("slang_options", PyList(<< >>)) >>,
      << Entry("slang_options", PyList(<< "--top", "x   -q" >>)) >> }

Configs ==
    {BaseConfig, EmptyConfig}
    \cup {[BaseConfig EXCEPT !.vlogdefine = d] : d \in DefineChoices}
    \cup {[BaseConfig EXCEPT !.vlogparam = p] : p \in ParamChoices}
    \cup {[BaseConfig EXCEPT !.src_files = f] : f \in FileChoices}
    \cup {[BaseConfig EXCEPT !.incdirs = i] : i \in IncdirChoices}
    \cup {[BaseConfig EXCEPT !.tool_options = m] : m \in ModeChoices}
    \cup {[BaseConfig EXCEPT !.tool_options = << Entry("mode", PyStr("lint")) >> \o o] :
             o \in OptionChoices}
    \cup {[BaseConfig EXCEPT !.toplevel = ""]}

\* The second instance is built from one of two reference configurations.
PeerConfigs ==
    {EmptyConfig,
     [BaseConfig EXCEPT !.vlogdefine = << Entry("PEER", PyInt(7)) >>,
                        !.toplevel = "peer_top"]}

(***************************************************************************)
(* State.                                                                  *)
(***************************************************************************)
VARIABLES
    cfg,         \* per instance: the configuration given at construction
    flags_obj,   \* heap: the contents of every list object bound to "flags"
    attr,        \* per instance: what the instance attribute "flags" is bound to
    cur,         \* the instance whose build_main is executing, or "none"
    pc,          \* the line build_main is about to execute, or "idle"
    entry_flags, \* contents of self.flags when the running build_main was entered
    calls,       \* the argument lists passed to _run_tool by the running build_main
    exc,         \* the exception raised by _run_tool in the running build_main
    trace        \* the completed configure_main / build_main calls, in order

vars == <<cfg, flags_obj, attr, cur, pc, entry_flags, calls, exc, trace>>

Cells == {ClassCell} \cup Instances

NoExc == [type |-> "", msg |-> ""]

RuntimeError(msg) == [type |-> "RuntimeError", msg |-> msg]

\* What _run_tool("slang", args) can do: return, or raise RuntimeError with a
\* text that describes the failure and the command.
ToolResults ==
    {NoExc,
     RuntimeError("'slang' exited with an error: 1"),
     RuntimeError("Command 'slang' not found. Make sure it is in $PATH")}

\* Attribute lookup self.flags: the instance attribute if one was assigned,
\* otherwise the class attribute.  After "self.flags += ..." on the class list
\* the instance attribute is bound to the class list itself.
Cell(i) == IF attr[i] = "own" THEN i ELSE ClassCell

Flags(i) == flags_obj[Cell(i)]

\* The class statement "flags = []" runs once; __init (which is not the
\* constructor __init__) never runs, so no instance starts with an attribute.
Init ==
    /\ cfg \in {c \in [Instances -> Configs \cup PeerConfigs] :
                   c["A"] \in Configs /\ c["B"] \in PeerConfigs}
    /\ flags_obj = [c \in Cells |-> <<>>]
    /\ attr = [i \in Instances |-> "none"]
    /\ cur = "none"
    /\ pc = "idle"
    /\ entry_flags = <<>>
    /\ calls = <<>>
    /\ exc = NoExc
    /\ trace = <<>>

(***************************************************************************)
(* Operations.  Python runs them on one thread: a call starts only when no *)
(* build_main is executing.                                                *)
(***************************************************************************)
\* A completed call: the argument lists it passed to _run_tool, what _run_tool
\* did (tool) and how the call itself ended (result).
Event(op, who, args, tool, result) ==
    [op |-> op, who |-> who, calls |-> args, tool |-> tool, result |-> result]

\* self.flags.append(...): mutates the list object self.flags resolves to.
InPlace(new) ==
    /\ flags_obj' = [flags_obj EXCEPT ![Cell(cur)] = new]
    /\ UNCHANGED attr

\* self.flags += [...]: extends that list object in place, then binds the
\* instance attribute to it.
AugAssign(new) ==
    /\ flags_obj' = [flags_obj EXCEPT ![Cell(cur)] = new]
    /\ attr' = [attr EXCEPT ![cur] = IF @ = "none" THEN "class" ELSE @]

\* Variant: configure_main returns without touching self.flags.
configure_main_keep(i) ==
    /\ pc = "idle"
    /\ Len(trace) < MaxOps
    /\ trace' = Append(trace, Event("configure_main", i, <<>>, NoExc, NoExc))
    /\ UNCHANGED <<cfg, flags_obj, attr, cur, pc, entry_flags, calls, exc>>

\* self.flags = []: a fresh list object owned by the instance.
configure_main(i) ==
    /\ pc = "idle"
    /\ Len(trace) < MaxOps
    /\ flags_obj' = [flags_obj EXCEPT ![i] = <<>>]
    /\ attr' = [attr EXCEPT ![i] = "own"]
    /\ trace' = Append(trace, Event("configure_main", i, <<>>, NoExc, NoExc))
    /\ UNCHANGED <<cfg, cur, pc, entry_flags, calls, exc>>

\* Entry into build_main.
build_main(i) ==
    /\ pc = "idle"
    /\ Len(trace) < MaxOps
    /\ cur' = i
    /\ pc' = "l137"
    /\ entry_flags' = Flags(i)
    /\ calls' = <<>>
    /\ exc' = NoExc
    /\ UNCHANGED <<cfg, flags_obj, attr, trace>>

L137 ==
    /\ pc = "l137"
    /\ InPlace(_get_define_flags(Flags(cur), cfg[cur].vlogdefine))
    /\ pc' = "l138"
    /\ UNCHANGED <<cfg, cur, entry_flags, calls, exc, trace>>

L138 ==
    /\ pc = "l138"
    /\ InPlace(_get_param_flags(Flags(cur), cfg[cur].vlogparam))
    /\ pc' = "l139"
    /\ UNCHANGED <<cfg, cur, entry_flags, calls, exc, trace>>

L139 ==
    /\ pc = "l139"
    /\ InPlace(_get_file_names(Flags(cur), cfg[cur].incdirs, cfg[cur].src_files))
    /\ pc' = "l140"
    /\ UNCHANGED <<cfg, cur, entry_flags, calls, exc, trace>>

L140 ==
    /\ pc = "l140"
    /\ AugAssign(_get_slang_options(Flags(cur), cfg[cur].tool_options))
    /\ pc' = "l141"
    /\ UNCHANGED <<cfg, cur, entry_flags, calls, exc, trace>>

\* When no branch of _get_run_mode_flags is taken there is no assignment and
\* the attribute binding stays as it is.
L141 ==
    /\ pc = "l141"
    /\ LET new == _get_run_mode_flags(Flags(cur), cfg[cur].tool_options)
       IN IF DictGet(cfg[cur].tool_options, "mode", PyStr(""))
                \in {PyStr("lint"), PyStr("preprocess")}
          THEN AugAssign(new)
          ELSE InPlace(new)
    /\ pc' = "l142"
    /\ UNCHANGED <<cfg, cur, entry_flags, calls, exc, trace>>

L142 ==
    /\ pc = "l142"
    /\ InPlace(_get_top_flags(Flags(cur), cfg[cur].toplevel))
    /\ pc' = "l144"
    /\ UNCHANGED <<cfg, cur, entry_flags, calls, exc, trace>>

\* try: self._run_tool("slang", self.flags)
L144 ==
    /\ pc = "l144"
    /\ \E r \in ToolResults :
          /\ calls' = Append(calls, Flags(cur))
          /\ exc' = r
          /\ pc' = IF r.type = "RuntimeError" THEN "l147" ELSE "l148"
    /\ UNCHANGED <<cfg, flags_obj, attr, cur, entry_flags, trace>>

\* Variant: the handler re-raises what it caught.
except_reraise(e) == e

\* The exception that leaves the "except RuntimeError" clause.
except_RuntimeError(e) == RuntimeError("Slang lint check failed")

\* except RuntimeError: raise RuntimeError(...)
L147 ==
    /\ pc = "l147"
    /\ trace' = Append(trace, Event("build_main", cur, calls, exc, except_RuntimeError(exc)))
    /\ pc' = "idle"
    /\ cur' = "none"
    /\ UNCHANGED <<cfg, flags_obj, attr, entry_flags, calls, exc>>

\* return
L148 ==
    /\ pc = "l148"
    /\ trace' = Append(trace, Event("build_main", cur, calls, exc, NoExc))
    /\ pc' = "idle"
    /\ cur' = "none"
    /\ UNCHANGED <<cfg, flags_obj, attr, entry_flags, calls, exc>>

Next ==
    \/ \E i \in Instances : configure_main(i)
    \/ \E i \in Instances : build_main(i)
    \/ L137
    \/ L138
    \/ L139
    \/ L140
    \/ L141
    \/ L142
    \/ L144
    \/ L147
    \/ L148

Spec == Init /\ [][Next]_vars

TypeOK ==
    /\ cur \in Instances \cup {"none"}
    /\ pc \in {"idle", "l137", "l138", "l139", "l140", "l141", "l142", "l144",
               "l147", "l148"}
    /\ attr \in [Instances -> {"none", "class", "own"}]
    /\ Len(trace) <= MaxOps
    /\ Len(calls) <= 1

(***************************************************************************)
(* Vocabulary of the properties.                                           *)
(***************************************************************************)
\* The tool has been invoked by the running build_main.
Invoked == cur \in Instances /\ calls # <<>>

\* The argument list of that invocation.
Argv == calls[1]

IsSuffix(t, s) == Len(s) >= Len(t) /\ SubSeq(s, Len(s) - Len(t) + 1, Len(s)) = t

IsPrefix(t, s) == Len(s) >= Len(t) /\ SubSeq(s, 1, Len(t)) = t

HasMode(c, m) ==
    \E k \in 1..Len(c.tool_options) : c.tool_options[k] = Entry("mode", PyStr(m))

\* The tokens each phase contributes when it is given an empty list.
PhaseDefines(c) == _get_define_flags(<<>>, c.vlogdefine)

PhaseParams(c) == _get_param_flags(<<>>, c.vlogparam)

PhaseFiles(c) == _get_file_names(<<>>, c.incdirs, c.src_files)

PhaseOptions(c) == _get_slang_options(<<>>, c.tool_options)

PhaseMode(c) == _get_run_mode_flags(<<>>, c.tool_options)

PhaseTop(c) == _get_top_flags(<<>>, c.toplevel)

\* The completed calls of instance i, oldest first.
EventsOf(i) == SelectSeq(trace, LAMBDA e : e.who = i)

(***************************************************************************)
(* C1: when build_main starts from an empty flag sequence, the argument     *)
(* list it passes to the tool is the define tokens, then the parameter     *)
(* tokens, then the file tokens, then the extra-option tokens, then the    *)
(* mode flags, then the top-level pair, in this order.                     *)
(***************************************************************************)
C1_PhaseOrder ==
    (Invoked /\ entry_flags = <<>>) =>
        Argv = PhaseDefines(cfg[cur]) \o PhaseParams(cfg[cur]) \o PhaseFiles(cfg[cur])
               \o PhaseOptions(cfg[cur]) \o PhaseMode(cfg[cur]) \o PhaseTop(cfg[cur])

\* An invocation from an empty list in which every phase contributed tokens.
C1_Witness ==
    /\ Invoked
    /\ entry_flags = <<>>
    /\ \A ph \in {PhaseDefines(cfg[cur]), PhaseParams(cfg[cur]), PhaseFiles(cfg[cur]),
                  PhaseOptions(cfg[cur]), PhaseMode(cfg[cur]), PhaseTop(cfg[cur])} :
          ph # <<>>
    /\ Argv[1] = "-D A=1"
    /\ Argv[Len(Argv)] = "top_module"

(***************************************************************************)
(* C2: the mode step appends exactly --lint-only, --print-unused-waivers   *)
(* for mode lint, exactly --preprocess for mode preprocess, nothing for    *)
(* any other or missing mode, and always continues with the next step.     *)
(***************************************************************************)
C2_ModeTokens(c) ==
    IF HasMode(c, "lint") THEN <<"--lint-only", "--print-unused-waivers">>
    ELSE IF HasMode(c, "preprocess") THEN <<"--preprocess">>
    ELSE <<>>

C3_TopFlags ==
    /\ [](Invoked /\ cfg[cur].toplevel # ""
             => IsSuffix(<<"--top", cfg[cur].toplevel>>, Argv))
    /\ [][pc = "l142" /\ cfg[cur].toplevel = "" => Flags(cur)' = Flags(cur)]_vars

\* An invocation whose list ends with the pair although user options are
\* present and an earlier build left tokens in the list.
C3_Witness ==
    /\ Invoked
    /\ cfg[cur].toplevel = "top_module"
    /\ entry_flags # <<>>
    /\ PhaseOptions(cfg[cur]) # <<>>
    /\ IsSuffix(<<"--top", "top_module">>, Argv)

(***************************************************************************)
(* C5: the define step appends one token "-D K=V" per entry of the define  *)
(* mapping, in mapping order, as the first tokens of the build; the        *)
(* parameter step appends one token "-G K=V" per parameter right after     *)
(* them.  Defines {A: 1, B: "x"} give "-D A=1" then "-D B=x".              *)
(***************************************************************************)
C5_DefineTokens(c) ==
    [k \in 1..Len(c.vlogdefine) |->
        "-D " \o c.vlogdefine[k].key \o "=" \o param_value_str(c.vlogdefine[k].value)]

C5_ParamTokens(c) ==
    [k \in 1..Len(c.vlogparam) |->
        "-G " \o c.vlogparam[k].key \o "=" \o param_value_str(c.vlogparam[k].value)]

C5_DefinesAndParams ==
    /\ pc = "l138" => Flags(cur) = entry_flags \o C5_DefineTokens(cfg[cur])
    /\ pc = "l139" => Flags(cur) = entry_flags \o C5_DefineTokens(cfg[cur])
                                               \o C5_ParamTokens(cfg[cur])
    /\ (pc = "l138"
        /\ cfg[cur].vlogdefine = << Entry("A", PyInt(1)), Entry("B", PyStr("x")) >>)
          => Flags(cur) = entry_flags \o << "-D A=1", "-D B=x" >>

\* Both steps have run on the example mapping.
C5_Witness ==
    /\ pc = "l139"
    /\ cfg[cur].vlogdefine = << Entry("A", PyInt(1)), Entry("B", PyStr("x")) >>
    /\ Flags(cur) = << "-D A=1", "-D B=x", "-G W=8" >>

(***************************************************************************)
(* C6: every build_main call invokes the tool exactly once; when the       *)
(* invocation fails the call fails with RuntimeError("Slang lint check     *)
(* failed") whatever the flags and the underlying detail; when it succeeds *)
(* the call returns normally.                                              *)
(***************************************************************************)
C6_FixedError ==
    \A k \in 1..Len(trace) :
        trace[k].op = "build_main" =>
            /\ Len(trace[k].calls) = 1
            /\ trace[k].tool # NoExc
                  => trace[k].result = RuntimeError("Slang lint check failed")
            /\ trace[k].tool = NoExc => trace[k].result = NoExc

\* Two failed builds with different underlying details and different flags.
C6_Witness ==
    \E j, k \in 1..Len(trace) :
        /\ trace[j].op = "build_main" /\ trace[k].op = "build_main"
        /\ trace[j].tool # NoExc /\ trace[k].tool # NoExc
        /\ trace[j].tool # trace[k].tool
        /\ trace[j].calls # trace[k].calls
        /\ trace[j].result = trace[k].result

(***************************************************************************)
(* C9: a build_main that directly follows a configure_main of the same     *)
(* instance passes to the tool exactly the tokens derived from the         *)
(* instance's configuration, whatever calls came before.                   *)
(***************************************************************************)
C9_Derived(c) ==
    _get_top_flags(
        _get_run_mode_flags(
            _get_slang_options(
                _get_file_names(
                    _get_param_flags(_get_define_flags(<<>>, c.vlogdefine), c.vlogparam),
                    c.incdirs, c.src_files),
                c.tool_options),
            c.tool_options),
        c.toplevel)

C9_ConfigureResets ==
    (Invoked /\ EventsOf(cur) # <<>>
     /\ EventsOf(cur)[Len(EventsOf(cur))].op = "configure_main")
        => Argv = C9_Derived(cfg[cur])

\* build_main (failed), configure_main, build_main on one instance.
C9_Witness ==
    /\ Invoked
    /\ Len(EventsOf(cur)) = 2
    /\ EventsOf(cur)[1].op = "build_main"
    /\ EventsOf(cur)[1].result # NoExc
    /\ EventsOf(cur)[1].calls[1] # <<>>
    /\ EventsOf(cur)[2].op = "configure_main"
    /\ Argv = C9_Derived(cfg[cur])
    /\ Argv # <<>>

(***************************************************************************)
(* C4: the file step appends, for each file descriptor in fileset order,   *)
(* the path alone when the type tag is verilogSource or                    *)
(* systemVerilogSource, the pair "--waiver-file", path when the tag is     *)
(* slangWaiver, and nothing for any other tag.                             *)
(***************************************************************************)
C4_IncdirTokens(c) ==
    [k \in 1..(2 * Len(c.incdirs)) |->
        IF k % 2 = 1 THEN "-I" ELSE c.incdirs[k \div 2]]

C4_TokensOf(f) ==
    IF f.file_type \in {"verilogSource", "systemVerilogSource"} THEN << f.name >>
    ELSE IF f.file_type = "slangWaiver" THEN << "--waiver-file", f.name >>
    ELSE << >>

RECURSIVE C4_FileTokens(_)
C4_FileTokens(files) ==
    IF files = <<>> THEN <<>>
    ELSE C4_TokensOf(Head(files)) \o C4_FileTokens(Tail(files))

C4_FileClassification ==
    [][pc = "l139" =>
          Flags(cur)' = Flags(cur) \o C4_IncdirTokens(cfg[cur])
                                   \o C4_FileTokens(cfg[cur].src_files)]_vars

(***************************************************************************)
(* C7: the user-options step splits the slang_options string on whitespace *)
(* and appends each word whole and in order: for a string made of the      *)
(* words w1..wn separated by whitespace it appends exactly w1..wn, and for *)
(* an empty or missing option string it appends nothing.                   *)
(***************************************************************************)
C7_WordLists ==
    { << >>, << "-q" >>, << "--std", "latest" >>, << "-Wall", "--top", "x" >> }

C7_Separators == { " ", "  ", "\t" }

C7_OptionString(c) == DictGet(c.tool_options, "slang_options", PyStr(""))

C7_SplitOptions ==
    [][pc = "l140" /\ C7_OptionString(cfg[cur]).kind = "str" =>
          \A words \in C7_WordLists, sep \in C7_Separators :
              C7_OptionString(cfg[cur]).s = Join(sep, words)
                  => Flags(cur)' = Flags(cur) \o words]_vars

(***************************************************************************)
(* C8: instances share no mutable state: no step of a build_main on one    *)
(* instance changes the flag sequence of another instance.                 *)
(***************************************************************************)
C8_NoSharedState ==
    [][\A b \in Instances :
          (cur \in Instances /\ b # cur) => Flags(b)' = Flags(b)]_vars

(***************************************************************************)
(* C10: every step of build_main only appends to the flag sequence, no     *)
(* outcome of the tool clears it, and a build_main that follows another    *)
(* build_main of the same instance with no configure_main in between       *)
(* passes the earlier argument list followed by one more copy of the       *)
(* derived tokens.                                                         *)
(***************************************************************************)
C10_AppendOnly ==
    /\ [][\A i \in Instances : i = cur => IsPrefix(Flags(i), Flags(i)')]_vars
    /\ [](Invoked /\ EventsOf(cur) # <<>>
          /\ EventsOf(cur)[Len(EventsOf(cur))].op = "build_main"
             => Argv = EventsOf(cur)[Len(EventsOf(cur))].calls[1]
                       \o C9_Derived(cfg[cur]))

====
